---- MODULE Spec2Model ----
(***************************************************************************)
(* Model of hmm.py: the class HMM (Viterbi decoding over a memoised        *)
(* table of log-probabilities and back pointers) and the island pass of    *)
(* find_CGI over a decoded path.                                           *)
(*                                                                         *)
(* Log-probabilities are integers; -float("inf") is the integer NegInf,    *)
(* which lies below every finite sum the model can form, and Add absorbs   *)
(* it as IEEE addition does.  Python list offsets are 0-based, TLA+        *)
(* sequences 1-based: state_probs[s][i] of the code is state_probs[s][i+1] *)
(* here, and sequence[index-1] is sequence[index].                         *)
(***************************************************************************)
EXTENDS Integers, Sequences, FiniteSets, TLC

VARIABLES sequence, begin_matrix, state_matrix, output_matrix, state_probs,
          ret, path, index, islands, pc

hmm_vars == <<sequence, begin_matrix, state_matrix, output_matrix, state_probs, ret>>
seg_vars == <<path, index, islands, pc>>
vars == <<sequence, begin_matrix, state_matrix, output_matrix, state_probs,
          ret, path, index, islands, pc>>

\* ---------------------------------------------------------------- bounds
MaxLen == 2
MaxPathLen == 4

\* ---------------------------------------------------------------- inputs
NegInf == -1000
states == <<"s1", "s2">>
StateSet == {states[j] : j \in 1..Len(states)}
Alphabet == {"a", "b"}
\* transition rows out of a state: uniform, or entering the first state costs more
TransRows == {[t \in StateSet |-> IF t = states[1] THEN x ELSE -1] : x \in {-2, -1}}
BeginProbs == {NegInf, -1}
\* emission rows: "a" is always possible, "b" may be impossible for a state
OutRows == {[o \in Alphabet |-> IF o = "b" THEN x ELSE -1] : x \in {NegInf, -2}}

RECURSIVE SeqsUpTo(_, _)
SeqsUpTo(S, n) ==
    IF n = 0 THEN {<<>>}
    ELSE LET shorter == SeqsUpTo(S, n - 1)
         IN  shorter \cup {Append(q, x) : q \in {r \in shorter : Len(r) = n - 1}, x \in S}

\* ---------------------------------------------------------------- HMM
\* float addition of two log-probabilities
Add(a, b) == IF a = NegInf \/ b = NegInf THEN NegInf ELSE a + b

prob_state_change(state1, state2) == state_matrix[state1][state2]

prob_output(output, state) == output_matrix[state][output]

\* self.state_probs after __init__
InitTable == [s \in StateSet |-> << <<0, "begin">> >>]

\* the comparison that replaces the best predecessor
BetterGE(cand, best) == cand >= best
Better(cand, best) == cand > best

\* the memoised value of (state, index)
StoredLast(T, state, i) == T[state][Len(T[state])][1]
Stored(T, state, i) == T[state][i + 1][1]

\* the observation that position i emits
ObservedNext(i) == sequence[IF i < Len(sequence) THEN i + 1 ELSE i]
Observed(i) == sequence[i]

\* whether position i has a predecessor position in the table
HasPrevLate(i) == ~(i < 3)
HasPrev(i) == ~(i < 2)

RECURSIVE find_prob(_, _, _), find_prob_loop(_, _, _, _, _, _)

\* the loop over k of find_prob, from the j-th state on
find_prob_loop(T, state, i, j, best_prob, best_k) ==
    IF j > Len(states)
    THEN [table |-> T, best_prob |-> best_prob, best_k |-> best_k]
    ELSE LET k == states[j]
             change_prob == IF i = 1 THEN begin_matrix[state]
                            ELSE prob_state_change(k, state)
             sub == IF HasPrev(i) THEN find_prob(T, k, i - 1)
                    ELSE [val |-> 0, err |-> "", table |-> T]
             state_prob == sub.val
             cand == Add(change_prob, state_prob)
         IN  IF Better(cand, best_prob)
             THEN find_prob_loop(sub.table, state, i, j + 1, cand, k)
             ELSE find_prob_loop(sub.table, state, i, j + 1, best_prob, best_k)

find_prob(T, state, i) ==
    IF Len(T[state]) > i
    THEN [val |-> Stored(T, state, i), err |-> "", table |-> T]
    ELSE IF i > Len(sequence)
    THEN [val |-> 0, err |-> "IndexError", table |-> T]
    ELSE LET r == find_prob_loop(T, state, i, 1, NegInf, state)
             best_prob == Add(r.best_prob, prob_output(Observed(i), state))
         IN  [val |-> best_prob, err |-> "",
              table |-> [r.table EXCEPT ![state] = Append(@, <<best_prob, r.best_k>>)]]

RECURSIVE find_best_prob_loop(_, _, _, _)
find_best_prob_loop(T, i, j, best_prob) ==
    IF j > Len(states)
    THEN [val |-> best_prob, none |-> FALSE, err |-> "", table |-> T]
    ELSE LET r == find_prob(T, states[j], i)
         IN  IF r.err # ""
             THEN [val |-> 0, none |-> FALSE, err |-> r.err, table |-> r.table]
             ELSE find_best_prob_loop(r.table, i, j + 1,
                                      IF r.val > best_prob THEN r.val ELSE best_prob)

find_best_prob_late(T, i) ==
    IF i > Len(sequence) + 1
    THEN [val |-> 0, none |-> TRUE, err |-> "", table |-> T]
    ELSE IF i = 0
    THEN [val |-> 1, none |-> FALSE, err |-> "", table |-> T]
    ELSE find_best_prob_loop(T, i, 1, NegInf)
find_best_prob(T, i) ==
    IF i > Len(sequence)
    THEN [val |-> 0, none |-> TRUE, err |-> "", table |-> T]
    ELSE IF i = 0
    THEN [val |-> 1, none |-> FALSE, err |-> "", table |-> T]
    ELSE find_best_prob_loop(T, i, 1, NegInf)

\* state_probs[k][-1][0]
LastProb(T, k) == T[k][Len(T[k])][1]

RECURSIVE best_final(_, _, _)
best_final(T, j, best_k) ==
    IF j > Len(states) THEN best_k
    ELSE best_final(T, j + 1,
                    IF LastProb(T, states[j]) > LastProb(T, best_k)
                    THEN states[j] ELSE best_k)

\* the back-pointer walk: best_path is built last state first
RECURSIVE back_trace(_, _, _, _)
back_trace(T, best_path, idx, current_state) ==
    IF ~(Len(best_path) < Len(sequence))
    THEN [err |-> "", best_path |-> best_path]
    ELSE IF current_state \notin DOMAIN T
    THEN [err |-> "KeyError", best_path |-> best_path]
    ELSE IF idx > Len(T[current_state])
    THEN [err |-> "IndexError", best_path |-> best_path]
    ELSE LET nxt == T[current_state][Len(T[current_state]) - idx + 1][2]
         IN  back_trace(T, Append(best_path, nxt), idx + 1, nxt)

Reverse(q) == [j \in 1..Len(q) |-> q[Len(q) + 1 - j]]

find_best_path(T) ==
    LET best_k == best_final(T, 1, states[1])
        r == back_trace(T, <<best_k>>, 1, best_k)
    IN  IF r.err # "" THEN [err |-> r.err, path |-> <<>>]
        ELSE [err |-> "", path |-> Reverse(r.best_path)]

NoRet == [op |-> "none", state |-> "", index |-> 0, val |-> 0, none |-> FALSE,
          err |-> "", path |-> <<>>]

Init ==
    /\ sequence \in SeqsUpTo(Alphabet, MaxLen)
    /\ begin_matrix \in [StateSet -> BeginProbs]
    /\ state_matrix \in [StateSet -> TransRows]
    /\ output_matrix \in [StateSet -> OutRows]
    /\ state_probs = InitTable
    /\ ret = NoRet
    /\ path = <<>>
    /\ index = 0
    /\ islands = <<>>
    /\ pc = "idle"

FindProb ==
    \E s \in StateSet, i \in 0..(Len(sequence) + 1) :
        LET r == find_prob(state_probs, s, i)
        IN  /\ state_probs' = r.table
            /\ ret' = [NoRet EXCEPT !.op = "find_prob", !.state = s, !.index = i,
                                    !.val = r.val, !.err = r.err]
            /\ UNCHANGED <<sequence, begin_matrix, state_matrix, output_matrix>>
            /\ UNCHANGED seg_vars

FindBestProb ==
    \E i \in 0..(Len(sequence) + 1) :
        LET r == find_best_prob(state_probs, i)
        IN  /\ state_probs' = r.table
            /\ ret' = [NoRet EXCEPT !.op = "find_best_prob", !.index = i,
                                    !.val = r.val, !.none = r.none, !.err = r.err]
            /\ UNCHANGED <<sequence, begin_matrix, state_matrix, output_matrix>>
            /\ UNCHANGED seg_vars

FindBestPath ==
    LET r == find_best_path(state_probs)
    IN  /\ ret' = [NoRet EXCEPT !.op = "find_best_path", !.err = r.err, !.path = r.path]
        /\ UNCHANGED <<sequence, begin_matrix, state_matrix, output_matrix, state_probs>>
        /\ UNCHANGED seg_vars

Next == FindProb \/ FindBestProb \/ FindBestPath

Spec == Init /\ [][Next]_vars

\* ---------------------------------------------------------------- find_CGI
CPG_states == <<"A+", "C+", "G+", "T+", "A-", "C-", "G-", "T-">>
CPGStateSet == {CPG_states[j] : j \in 1..Len(CPG_states)}

\* "+" in k
HasPlus(k) == k \in {"A+", "C+", "G+", "T+"}
\* "-" in k
HasMinus(k) == k \in {"A-", "C-", "G-", "T-"}

\* one iteration of the island loop, without the close at the end of the path
seg_body_noclose(p, i, isl) ==
    LET k == p[i + 1]
    IN  IF HasPlus(k) /\ (i = 0 \/ HasMinus(p[i]))
        THEN Append(isl, <<i>>)
        ELSE IF HasMinus(k) /\ i > 0 /\ HasPlus(p[i])
        THEN [isl EXCEPT ![Len(isl)] = Append(@, i)]
        ELSE isl
\* one iteration of the island loop: k = path[i], islands so far isl
seg_body(p, i, isl) ==
    LET k == p[i + 1]
        opened == IF HasPlus(k) /\ (i = 0 \/ HasMinus(p[i]))
                  THEN Append(isl, <<i>>)
                  ELSE IF HasMinus(k) /\ i > 0 /\ HasPlus(p[i])
                  THEN [isl EXCEPT ![Len(isl)] = Append(@, i)]
                  ELSE isl
    IN  IF i = Len(p) - 1 /\ Len(opened) > 0 /\ Len(opened[Len(opened)]) < 2
        THEN [opened EXCEPT ![Len(opened)] = Append(@, i)]
        ELSE opened

SegInit ==
    /\ sequence = <<>>
    /\ begin_matrix = [s \in StateSet |-> -1]
    /\ state_matrix = [s \in StateSet |-> [t \in StateSet |-> -1]]
    /\ output_matrix = [s \in StateSet |-> [o \in Alphabet |-> -1]]
    /\ state_probs = InitTable
    /\ ret = NoRet
    /\ path \in SeqsUpTo(CPGStateSet, MaxPathLen)
    /\ index = 0
    /\ islands = <<>>
    /\ pc = "loop"

SegStep ==
    /\ pc = "loop"
    /\ index < Len(path)
    /\ islands' = seg_body(path, index, islands)
    /\ index' = index + 1
    /\ UNCHANGED <<path, pc>>
    /\ UNCHANGED hmm_vars

SegReturn ==
    /\ pc = "loop"
    /\ index = Len(path)
    /\ pc' = "done"
    /\ UNCHANGED <<path, index, islands>>
    /\ UNCHANGED hmm_vars

SegNext == SegStep \/ SegReturn

SegSpec == SegInit /\ [][SegNext]_vars

\* ================================================================ claims
n == Len(sequence)

\* the table holds positions 0..n for every state
Full(T) == \A s \in StateSet : Len(T[s]) = n + 1

\* total log score of a state sequence p of length >= 1
RECURSIVE ScoreUpTo(_, _)
ScoreUpTo(p, i) ==
    IF i = 1 THEN Add(begin_matrix[p[1]], output_matrix[p[1]][sequence[1]])
    ELSE Add(Add(ScoreUpTo(p, i - 1), state_matrix[p[i - 1]][p[i]]),
             output_matrix[p[i]][sequence[i]])
Score(p) == ScoreUpTo(p, Len(p))

BruteMax ==
    LET scores == {Score(p) : p \in [1..n -> StateSet]}
    IN  CHOOSE m \in scores : \A x \in scores : x <= m

\* C1: for a sequence of length n >= 1, find_best_prob(n) returns the maximum
\* total log score over all |States|^n state sequences, and the path that
\* find_best_path returns afterwards has exactly that score.
C1_Optimal ==
    n >= 1 =>
      /\ (ret.op = "find_best_prob" /\ ret.index = n) =>
            (ret.err = "" /\ ~ret.none /\ ret.val = BruteMax)
      /\ (ret.op = "find_best_path" /\ Full(state_probs)) =>
            /\ ret.err = ""
            /\ ret.path \in [1..n -> StateSet]
            /\ Score(ret.path) = BruteMax
            /\ find_best_prob(state_probs, n).val = BruteMax

C1_Witness ==
    /\ n >= 2
    /\ ret.op = "find_best_path"
    /\ Full(state_probs)
    /\ BruteMax > NegInf
    /\ \E p \in [1..n -> StateSet] : Score(p) < BruteMax /\ Score(p) > NegInf
    /\ ret.path[1] # ret.path[2]

\* C2: after the table is filled to len(sequence), the path returned by
\* find_best_path has exactly len(sequence) elements, length 0 included.
C2_PathLength ==
    (ret.op = "find_best_path" /\ Full(state_probs)) =>
        (ret.err = "" /\ Len(ret.path) = n)

\* candidate score of predecessor k for the entry (s, i), read from the table
TransitionInto(k, s, i) == IF i = 1 THEN begin_matrix[s] ELSE state_matrix[k][s]
Cand(T, k, s, i) == Add(TransitionInto(k, s, i), T[k][i][1])
MaxCand(T, s, i) ==
    LET c == {Cand(T, k, s, i) : k \in StateSet}
    IN  CHOOSE m \in c : \A x \in c : x <= m
FirstArgmax(T, s, i) ==
    LET j == CHOOSE a \in 1..Len(states) :
                /\ Cand(T, states[a], s, i) = MaxCand(T, s, i)
                /\ \A b \in 1..(a - 1) : Cand(T, states[b], s, i) # MaxCand(T, s, i)
    IN  states[j]
FirstBestFinal(T) ==
    LET j == CHOOSE a \in 1..Len(states) :
                /\ \A b \in 1..Len(states) : LastProb(T, states[b]) <= LastProb(T, states[a])
                /\ \A b \in 1..(a - 1) : LastProb(T, states[b]) < LastProb(T, states[a])
    IN  states[j]
PathStartsAtFirstBest ==
    (ret.op = "find_best_path" /\ ret.err = "") =>
        ret.path[Len(ret.path)] = FirstBestFinal(state_probs)

\* C4 (as stated): whatever the value of the maximum, the predecessor recorded
\* for (s, i) is the first state in States order that achieves it, and
\* find_best_path starts from the first state whose final entry is maximal.
C4_FirstTieAnyMax ==
    /\ \A s \in StateSet : \A i \in 1..(Len(state_probs[s]) - 1) :
          state_probs[s][i + 1][2] = FirstArgmax(state_probs, s, i)
    /\ PathStartsAtFirstBest

\* C4 (amended): when the maximum is greater than -inf the recorded
\* predecessor is the first state in States order that achieves it; when
\* every candidate is -inf the recorded predecessor is the state s itself;
\* find_best_path starts from the first state whose final entry is maximal.
C4_FirstTieFiniteMax ==
    /\ \A s \in StateSet : \A i \in 1..(Len(state_probs[s]) - 1) :
          state_probs[s][i + 1][2] =
              IF MaxCand(state_probs, s, i) > NegInf
              THEN FirstArgmax(state_probs, s, i)
              ELSE s
    /\ PathStartsAtFirstBest

C4_Witness ==
    /\ ret.op = "find_best_path"
    /\ ret.err = ""
    /\ \E s \in StateSet : \E i \in 2..(Len(state_probs[s]) - 1) :
          /\ MaxCand(state_probs, s, i) > NegInf
          /\ \A k \in StateSet : Cand(state_probs, k, s, i) = MaxCand(state_probs, s, i)
          /\ state_probs[s][i + 1][2] = states[1]
          /\ s # states[1]

\* C5: find_best_path on a table that is not filled to len(sequence) for
\* every state fails with an error and returns no path.
C5_NotRunFails ==
    (ret.op = "find_best_path" /\ ~Full(state_probs)) => ret.err # ""

\* C6: for the empty sequence, find_best_prob(0) is the base log-probability
\* 0 and find_best_path returns the empty path.
C6_EmptySequence ==
    n = 0 =>
      /\ (ret.op = "find_best_prob" /\ ret.index = 0) => (~ret.none /\ ret.val = 0)
      /\ ret.op = "find_best_path" => (ret.err = "" /\ ret.path = <<>>)

\* C8: find_prob(state, index) returns the same value whatever calls came
\* before it (the value it returns on a fresh table), and a repeated call
\* returns that value again and leaves the whole table unchanged.
C8_Pure ==
    /\ (ret.op = "find_prob" /\ ret.err = "") =>
          ret.val = find_prob(InitTable, ret.state, ret.index).val
    /\ \A s \in StateSet : \A i \in 0..n :
          LET first == find_prob(state_probs, s, i)
              again == find_prob(first.table, s, i)
          IN  /\ first.val = find_prob(InitTable, s, i).val
              /\ again.val = first.val
              /\ again.table = first.table

C8_Witness ==
    /\ ret.op = "find_prob"
    /\ ret.index >= 1
    /\ ret.index < Len(state_probs[ret.state]) - 1
    /\ ret.val > NegInf
    /\ ret.val # LastProb(state_probs, ret.state)

\* C9: find_best_prob(index) with index > len(sequence) returns None without
\* raising and leaves the table as it was.
C9_BeyondEnd ==
    [][(ret'.op = "find_best_prob" /\ ret'.index > n) =>
          (ret'.none /\ ret'.err = "" /\ state_probs' = state_probs)]_vars

C9_Witness ==
    /\ ret.op = "find_best_prob"
    /\ ret.index > n
    /\ ret.none
    /\ \E s \in StateSet : Len(state_probs[s]) > 1

\* the table after filling positions 1..j in increasing order from scratch
FilledTo(j) == find_best_prob(InitTable, j).table

\* C10: under any order of find_prob / find_best_prob calls, every list keeps
\* [0, "begin"] at offset 0, never has more than len(sequence)+1 entries, and
\* the entry at offset j >= 1 is the entry computed for position j.
C10_Table ==
    \A s \in StateSet :
      /\ state_probs[s][1] = <<0, "begin">>
      /\ Len(state_probs[s]) <= n + 1
      /\ \A j \in 1..(Len(state_probs[s]) - 1) :
            /\ j <= n
            /\ Len(FilledTo(j)[s]) > j
            /\ state_probs[s][j + 1] = FilledTo(j)[s][j + 1]

C10_Witness ==
    /\ n >= 2
    /\ ret.op = "find_prob"
    /\ \E s, t \in StateSet : Len(state_probs[s]) = n + 1 /\ Len(state_probs[t]) = n
    /\ \E s \in StateSet : Len(state_probs[s]) = n + 1 /\ state_probs[s][n + 1][1] > NegInf

\* ---------------------------------------------------------------- islands
Marked(p) == {i \in 0..(Len(p) - 1) : HasPlus(p[i + 1])}

\* C3: every reported island [start, end] is a maximal marked run given as a
\* closed interval, so the islands cover exactly the marked path indices.
C3_ClosedMaximalRuns ==
    pc = "done" =>
      /\ \A e \in 1..Len(islands) :
            LET start == islands[e][1]
                end == islands[e][Len(islands[e])]
            IN  /\ start \in Marked(path)
                /\ (start - 1) \notin Marked(path)
                /\ end \in Marked(path)
                /\ (end + 1) \notin Marked(path)
                /\ \A i \in start..end : i \in Marked(path)
      /\ UNION {islands[e][1]..islands[e][Len(islands[e])] : e \in 1..Len(islands)}
            = Marked(path)

\* C7: the island list is well formed: every entry has exactly two endpoints
\* with start <= end, and the entries are in strictly increasing order
\* without overlap.
C7_WellFormed ==
    pc = "done" =>
      /\ \A e \in 1..Len(islands) :
            /\ Len(islands[e]) = 2
            /\ islands[e][1] <= islands[e][2]
      /\ \A e \in 1..(Len(islands) - 1) : islands[e][2] < islands[e + 1][1]

C7_Witness ==
    /\ pc = "done"
    /\ Len(islands) = 2
    /\ islands[2][2] = Len(path) - 1
    /\ HasPlus(path[Len(path)])
    /\ islands[1][2] > islands[1][1]

====
